---- MODULE Spec2Model ----
(***************************************************************************)
(* A model of go-sphere/confstore: the provider Selector (silent and       *)
(* diagnostic mode), Select.Read, FallbackCodecGroup.Unmarshal and         *)
(* Marshal, HTTP.Read, ExpandEnv.Read and StringCodec.                     *)
(***************************************************************************)
EXTENDS Integers, Sequences, FiniteSets, TLC

VARIABLES
    param,      \* Selector: the selection parameter handed to every case
    cases,      \* Selector: the ordered case list
    sel,        \* one call of Selector on (param, cases)
    swe,        \* one call of SelectorWithErrors on (param, cases)
    sr,         \* one call of Select.Read on a Select holding (param, cases)
    codecs,     \* FallbackCodecGroup.codecs
    dest,       \* the caller's destination handed to Unmarshal
    um,         \* one call of FallbackCodecGroup.Unmarshal
    ma,         \* one call of FallbackCodecGroup.Marshal
    opts,       \* HTTP: the provider's options, fixed by NewHTTP
    ctx,        \* HTTP: the caller's context: state "live", "canceled" or
                \* "deadline", and the phase of Read at which it became done
    resp,       \* HTTP: the response client.Do returned, if any
    rd,         \* one call of HTTP.Read
    ex,         \* one call of ExpandEnv.Read
    sc,         \* one call of StringCodec().Unmarshal
    other       \* concurrent callers: the private state of the call that is
                \* not running while the call held in sel, um, dest, rd, resp
                \* and ctx takes its steps

selVars == <<param, cases, sel, swe, sr>>
codecVars == <<codecs, dest, um, ma>>
httpVars == <<opts, ctx, resp, rd>>
expVars == <<ex>>
strVars == <<sc>>
concVars == <<other>>
vars == <<param, cases, sel, swe, sr, codecs, dest, um, ma, opts, ctx, resp, rd, ex, sc, other>>

\* ------------------------------------------------------------------ bounds
MaxCases == 3
MaxParam == 1
MaxCodecs == 3
MaxField == 2
MaxLimit == 2
MaxBody == 4
MaxChunk == 2
MaxPayload == 3
MaxConcCases == 2
MaxConcCodecs == 2
MaxConcBody == 2

\* ------------------------------------------------------------------ errors
\* A Go error value is a tree: a leaf (errors.New, or fmt.Errorf without %w), a
\* wrap (fmt.Errorf with one %w) or a join (errors.Join); NoErr is the nil
\* error.  name holds the error's own text as a sequence of tokens.
NoErr == [k |-> "nil", name |-> <<>>, inner |-> <<>>]
Leaf(n) == [k |-> "leaf", name |-> n, inner |-> <<>>]
Wrap(msg, e) == [k |-> "wrap", name |-> msg, inner |-> <<e>>]

ErrNoValidProvider == Leaf(<<"no valid provider found">>)
ErrNotMatched == Leaf(<<"provider not matched">>)
ErrNilProvider == Leaf(<<"provider is nil">>)

\* errors.Join: nil members are dropped; nil when none is left.
Join(errs) ==
    LET kept == SelectSeq(errs, LAMBDA e : e # NoErr)
    IN  IF kept = <<>> THEN NoErr ELSE [k |-> "join", name |-> <<>>, inner |-> kept]

\* errors.Is: the error itself, or any error of its Unwrap tree, equals target.
RECURSIVE Is(_, _)
Is(err, target) ==
    /\ err # NoErr
    /\ \/ err = target
       \/ \E j \in 1..Len(err.inner) : Is(err.inner[j], target)

\* ------------------------------------------------------------------ cases
Nil == "nil"
Params == 0..MaxParam

\* A case is func(T) (Provider, error).  kind "If" and "IfE" are the cases the
\* constructors build from a predicate (cond: the parameters it accepts) and a
\* factory (then: what it returns); kind "raw" is a caller-written function
\* returning (prov, err) as they are.
MkCase(kind, cond, prov, err) == [kind |-> kind, cond |-> cond, prov |-> prov, err |-> err]

boom == Leaf(<<"boom">>)
constructionErr == Leaf(<<"construction failed">>)

CaseSet ==
    { MkCase("If", {1}, "A", NoErr),
      MkCase("If", Params, "B", NoErr),
      MkCase("If", Params, Nil, NoErr),
      MkCase("IfE", {0}, "A", NoErr),
      MkCase("IfE", Params, Nil, constructionErr),
      MkCase("IfE", Params, "B", boom),
      MkCase("IfE", {1}, Nil, NoErr),
      MkCase("raw", {}, Nil, NoErr),
      MkCase("raw", {}, "A", boom),
      MkCase("raw", {}, Nil, Wrap(<<"skip">>, ErrNotMatched)) }

Ret(prov, err) == [prov |-> prov, err |-> err]

\* If(cond, then): the factory is called only when cond(p) holds.
IfCase(c, p) ==
    IF p \in c.cond
    THEN IF c.prov = Nil THEN Ret(Nil, ErrNilProvider) ELSE Ret(c.prov, NoErr)
    ELSE Ret(Nil, ErrNotMatched)

\* IfE(cond, then): like If, the factory may fail.
IfECase(c, p) ==
    IF p \notin c.cond THEN Ret(Nil, ErrNotMatched)
    ELSE IF c.err # NoErr THEN Ret(Nil, c.err)
    ELSE IF c.prov = Nil THEN Ret(Nil, ErrNilProvider)
    ELSE Ret(c.prov, NoErr)

\* c(param): what the case returns.
CaseResult(c, p) ==
    CASE c.kind = "If" -> IfCase(c, p)
      [] c.kind = "IfE" -> IfECase(c, p)
      [] OTHER -> Ret(c.prov, c.err)

\* The calls c(param) makes, in order: its predicate, then (when the predicate
\* accepted) its factory.
CaseEventsEager(c, i, p) ==
    CASE c.kind = "raw" -> <<>>
      [] OTHER -> << <<"cond", i>>, <<"then", i>> >>
CaseEvents(c, i, p) ==
    CASE c.kind = "raw" -> <<>>
      [] p \in c.cond -> << <<"cond", i>>, <<"then", i>> >>
      [] OTHER -> << <<"cond", i>> >>

\* ------------------------------------------------------------------ Selector
\* A call in progress: i is the index of the next case of the range loop.
Call0 == [pc |-> "loop", i |-> 1, calls |-> <<>>, joined |-> <<>>,
          prov |-> Nil, err |-> NoErr, from |-> 0]

Invoke(run, i) ==
    [run EXCEPT !.calls = run.calls \o << <<"case", i>> >> \o CaseEvents(cases[i], i, param)]

Done(run, prov, err, from) ==
    [run EXCEPT !.pc = "done", !.prov = prov, !.err = err, !.from = from]

\* One iteration of Selector's loop over the case run.i, which returned r.
SelectorIterFatal(run, r) ==
    IF r.err # NoErr
    THEN IF Is(r.err, ErrNotMatched)
         THEN [run EXCEPT !.i = run.i + 1]
         ELSE Done(run, Nil, r.err, 0)
    ELSE IF r.prov # Nil THEN Done(run, r.prov, NoErr, run.i)
    ELSE [run EXCEPT !.i = run.i + 1]
SelectorIterKeepsGoing(run, r) ==
    IF r.err # NoErr
    THEN [run EXCEPT !.i = run.i + 1]
    ELSE IF r.prov # Nil /\ run.from = 0
         THEN [run EXCEPT !.i = run.i + 1, !.prov = r.prov, !.from = run.i]
         ELSE [run EXCEPT !.i = run.i + 1]
SelectorIter(run, r) ==
    IF r.err # NoErr
    THEN [run EXCEPT !.i = run.i + 1]
    ELSE IF r.prov # Nil THEN Done(run, r.prov, NoErr, run.i)
    ELSE [run EXCEPT !.i = run.i + 1]

\* After the loop: return nil, ErrNoValidProvider.
SelectorEndNilNil(run) == Done(run, Nil, NoErr, 0)
SelectorEnd(run) == Done(run, Nil, ErrNoValidProvider, 0)

\* One iteration of SelectorWithErrors' loop.
SelectorWithErrorsIterDropsErr(run, r) ==
    IF r.err # NoErr
    THEN [run EXCEPT !.i = run.i + 1]
    ELSE IF r.prov # Nil THEN Done(run, r.prov, NoErr, run.i)
    ELSE [run EXCEPT !.i = run.i + 1, !.joined = Append(run.joined, ErrNilProvider)]
SelectorWithErrorsIterSkipsNext(run, r) ==
    IF r.err # NoErr
    THEN IF Is(r.err, ErrNotMatched)
         THEN [run EXCEPT !.i = run.i + 1]
         ELSE [run EXCEPT !.i = run.i + 2, !.joined = Append(run.joined, r.err)]
    ELSE IF r.prov # Nil THEN Done(run, r.prov, NoErr, run.i)
    ELSE [run EXCEPT !.i = run.i + 1, !.joined = Append(run.joined, ErrNilProvider)]
SelectorWithErrorsIterJoinsAll(run, r) ==
    IF r.err # NoErr
    THEN [run EXCEPT !.i = run.i + 1, !.joined = Append(run.joined, r.err)]
    ELSE IF r.prov # Nil THEN Done(run, r.prov, NoErr, run.i)
    ELSE [run EXCEPT !.i = run.i + 1, !.joined = Append(run.joined, ErrNilProvider)]
SelectorWithErrorsIter(run, r) ==
    IF r.err # NoErr
    THEN IF Is(r.err, ErrNotMatched)
         THEN [run EXCEPT !.i = run.i + 1]
         ELSE [run EXCEPT !.i = run.i + 1, !.joined = Append(run.joined, r.err)]
    ELSE IF r.prov # Nil THEN Done(run, r.prov, NoErr, run.i)
    ELSE [run EXCEPT !.i = run.i + 1, !.joined = Append(run.joined, ErrNilProvider)]

\* After the loop: joined = append(joined, ErrNoValidProvider); errors.Join.
SelectorWithErrorsEnd(run) ==
    Done(run, Nil, Join(Append(run.joined, ErrNoValidProvider)), 0)

SelectorStep ==
    /\ sel.pc = "loop"
    /\ sel.i <= Len(cases)
    /\ sel' = SelectorIter(Invoke(sel, sel.i), CaseResult(cases[sel.i], param))
    /\ UNCHANGED <<param, cases, swe, sr>>
    /\ UNCHANGED <<codecVars, httpVars, expVars, strVars, concVars>>

SelectorReturn ==
    /\ sel.pc = "loop"
    /\ sel.i > Len(cases)
    /\ sel' = SelectorEnd(sel)
    /\ UNCHANGED <<param, cases, swe, sr>>
    /\ UNCHANGED <<codecVars, httpVars, expVars, strVars, concVars>>

SelectorWithErrorsStep ==
    /\ swe.pc = "loop"
    /\ swe.i <= Len(cases)
    /\ swe' = SelectorWithErrorsIter(Invoke(swe, swe.i), CaseResult(cases[swe.i], param))
    /\ UNCHANGED <<param, cases, sel, sr>>
    /\ UNCHANGED <<codecVars, httpVars, expVars, strVars, concVars>>

SelectorWithErrorsReturn ==
    /\ swe.pc = "loop"
    /\ swe.i > Len(cases)
    /\ swe' = SelectorWithErrorsEnd(swe)
    /\ UNCHANGED <<param, cases, sel, sr>>
    /\ UNCHANGED <<codecVars, httpVars, expVars, strVars, concVars>>

CaseLists == UNION { [1..n -> CaseSet] : n \in 0..MaxCases }

\* What a provider's Read returns: ([]byte, error); isNil tells a nil slice
\* from an empty one.
Out(isNil, data, err) == [isNil |-> isNil, data |-> data, err |-> err]

\* A call of Select.Read in progress: ctx is the caller's context ("live" or
\* "canceled" when Read is called); readOn is the provider whose Read was
\* called, passed the context it was handed, got what it returned.
SelectRead0 == [pc |-> "select", ctx |-> "live", readOn |-> Nil, passed |-> "",
                got |-> Out(TRUE, <<>>, NoErr),
                isNil |-> TRUE, out |-> <<>>, err |-> NoErr]

\* No selection in progress.
IdleSelector ==
    /\ param = 0
    /\ cases = <<>>
    /\ sel = [Call0 EXCEPT !.pc = "idle"]
    /\ swe = [Call0 EXCEPT !.pc = "idle"]
    /\ sr = [SelectRead0 EXCEPT !.pc = "idle"]

\* ------------------------------------------------------------------ codecs
\* The destination's value is a struct of two fields; 0 is a field's zero value.
Fields == 0..MaxField
Values == [a : Fields, b : Fields]
Zero == [a |-> 0, b |-> 0]

\* A codec's Unmarshal writes some fields of the value it is handed (Keep: the
\* field is left as it was) and then returns err; a failing codec may have
\* written before it failed.  Its Marshal returns (enc, merr); a failing
\* Marshal may return bytes next to its error.
Keep == -1
MkCodec(wa, wb, err, enc, merr) ==
    [wa |-> wa, wb |-> wb, err |-> err, enc |-> enc, merr |-> merr]

nope1 == Leaf(<<"nope1">>)
bad == Leaf(<<"bad">>)

CodecSet ==
    { MkCodec(Keep, Keep, nope1, <<>>, nope1),
      MkCodec(2, Keep, bad, <<1>>, bad),
      MkCodec(1, 1, NoErr, <<1>>, NoErr),
      MkCodec(Keep, 2, NoErr, <<2>>, NoErr),
      MkCodec(Keep, Keep, NoErr, <<>>, nope1) }

\* c.Unmarshal(data, &v): the value v holds afterwards.
CodecWrite(c, v) ==
    [a |-> IF c.wa = Keep THEN v.a ELSE c.wa,
     b |-> IF c.wb = Keep THEN v.b ELSE c.wb]

\* The destination: a non-nil pointer to a value ("ptr"), a nil pointer
\* ("nilptr": nothing can be written through it), or a non-pointer reference
\* such as a map ("map": writes reach the caller's value).
MkDest(kind, val) == [kind |-> kind, val |-> val]
Dests ==
    { MkDest("ptr", v) : v \in Values } \cup { MkDest("map", v) : v \in Values }
        \cup { MkDest("nilptr", Zero) }

\* rv.Kind() == reflect.Pointer && !rv.IsNil()
StagedNever(d) == FALSE
StagedAlways(d) == TRUE
Staged(d) == d.kind = "ptr"

\* reflect.New(rv.Elem().Type()): a pointer to a new zero value.
NewTmpCopiesDest(d) == d.val
NewTmp(d) == Zero

\* fmt.Errorf("codec[%d]: %w", i, err), i counted from 0 as range does.
CodecErrOpaque(i, err) == Leaf(<<"codec[" \o ToString(i - 1) \o "]:">> \o err.name)
CodecErr(i, err) == Wrap(<<"codec[" \o ToString(i - 1) \o "]:">>, err)

Unmarshal0 == [pc |-> "loop", i |-> 1, joined |-> NoErr, err |-> NoErr,
               calls |-> <<>>, by |-> 0, P |-> Zero]

\* What codec i was handed and what that value held before and after.
UCall(i, target, before, after) ==
    [codec |-> i, target |-> target, before |-> before, after |-> after]

\* A codec returned nil: return nil.
UnmarshalOkContinues(run, log) ==
    [run EXCEPT !.i = run.i + 1, !.by = run.i, !.calls = log]
UnmarshalOk(run, log) ==
    [run EXCEPT !.pc = "done", !.err = NoErr, !.by = run.i, !.calls = log]

\* len(m.codecs) == 0
UnmarshalNoCodecsFallsThrough ==
    /\ um.pc = "loop"
    /\ Len(codecs) = 0
    /\ um' = [um EXCEPT !.pc = "done",
                        !.err = Wrap(<<"fallback unmarshal failed:">>, um.joined)]
    /\ UNCHANGED <<codecs, dest, ma>>
    /\ UNCHANGED <<selVars, httpVars, expVars, strVars, concVars>>
UnmarshalNoCodecs ==
    /\ um.pc = "loop"
    /\ Len(codecs) = 0
    /\ um' = [um EXCEPT !.pc = "done",
                        !.err = Leaf(<<"fallback unmarshal: no codecs configured">>)]
    /\ UNCHANGED <<codecs, dest, ma>>
    /\ UNCHANGED <<selVars, httpVars, expVars, strVars, concVars>>

\* One iteration of the loop, the staged branch: decode into tmp, commit on
\* success.
UnmarshalStaged ==
    /\ um.pc = "loop"
    /\ Len(codecs) > 0 /\ um.i <= Len(codecs)
    /\ Staged(dest)
    /\ LET c == codecs[um.i]
           tmp == NewTmp(dest)
           out == CodecWrite(c, tmp)
           log == Append(um.calls, UCall(um.i, "tmp", tmp, out))
       IN  IF c.err = NoErr
           THEN /\ dest' = [dest EXCEPT !.val = out]
                /\ um' = UnmarshalOk(um, log)
           ELSE /\ dest' = dest
                /\ um' = [um EXCEPT !.i = um.i + 1, !.calls = log,
                                    !.joined = Join(<<um.joined, CodecErr(um.i, c.err)>>)]
    /\ UNCHANGED <<codecs, ma>>
    /\ UNCHANGED <<selVars, httpVars, expVars, strVars, concVars>>

\* One iteration of the loop, the direct branch: decode into the provided
\* value.
UnmarshalDirect ==
    /\ um.pc = "loop"
    /\ Len(codecs) > 0 /\ um.i <= Len(codecs)
    /\ ~Staged(dest)
    /\ LET c == codecs[um.i]
           out == IF dest.kind = "nilptr" THEN dest.val ELSE CodecWrite(c, dest.val)
           log == Append(um.calls, UCall(um.i, "dest", dest.val, out))
       IN  /\ dest' = [dest EXCEPT !.val = out]
           /\ IF c.err = NoErr
              THEN um' = UnmarshalOk(um, log)
              ELSE um' = [um EXCEPT !.i = um.i + 1, !.calls = log,
                                    !.joined = Join(<<um.joined, CodecErr(um.i, c.err)>>)]
    /\ UNCHANGED <<codecs, ma>>
    /\ UNCHANGED <<selVars, httpVars, expVars, strVars, concVars>>

\* After the loop: fmt.Errorf("fallback unmarshal failed: %w", joined).
UnmarshalFailed ==
    /\ um.pc = "loop"
    /\ Len(codecs) > 0 /\ um.i > Len(codecs)
    /\ um' = [um EXCEPT !.pc = "done",
                        !.err = Wrap(<<"fallback unmarshal failed:">>, um.joined)]
    /\ UNCHANGED <<codecs, dest, ma>>
    /\ UNCHANGED <<selVars, httpVars, expVars, strVars, concVars>>

\* A call of Marshal in progress: calls lists the codecs whose Marshal was
\* called, by the codec whose bytes are returned.
Marshal0 == [pc |-> "loop", i |-> 1, joined |-> NoErr, calls |-> <<>>, by |-> 0,
             isNil |-> TRUE, out |-> <<>>, err |-> NoErr]

\* One iteration of Marshal's loop over the codec run.i, c.
MarshalIterNoFallback(run, c) ==
    IF c.merr = NoErr
    THEN [run EXCEPT !.pc = "done", !.by = run.i, !.isNil = FALSE, !.out = c.enc,
                     !.err = NoErr, !.calls = Append(run.calls, run.i)]
    ELSE [run EXCEPT !.pc = "done", !.err = c.merr, !.calls = Append(run.calls, run.i)]
MarshalIter(run, c) ==
    IF c.merr = NoErr
    THEN [run EXCEPT !.pc = "done", !.by = run.i, !.isNil = FALSE, !.out = c.enc,
                     !.err = NoErr, !.calls = Append(run.calls, run.i)]
    ELSE [run EXCEPT !.i = run.i + 1, !.calls = Append(run.calls, run.i),
                     !.joined = Join(<<run.joined, CodecErr(run.i, c.merr)>>)]

\* len(m.codecs) == 0
MarshalNoCodecs ==
    /\ ma.pc = "loop"
    /\ Len(codecs) = 0
    /\ ma' = [ma EXCEPT !.pc = "done",
                        !.err = Leaf(<<"fallback marshal: no codecs configured">>)]
    /\ UNCHANGED <<codecs, dest, um>>
    /\ UNCHANGED <<selVars, httpVars, expVars, strVars, concVars>>

MarshalStep ==
    /\ ma.pc = "loop"
    /\ Len(codecs) > 0 /\ ma.i <= Len(codecs)
    /\ ma' = MarshalIter(ma, codecs[ma.i])
    /\ UNCHANGED <<codecs, dest, um>>
    /\ UNCHANGED <<selVars, httpVars, expVars, strVars, concVars>>

\* After the loop: return nil, fmt.Errorf("fallback marshal failed: %w", joined).
MarshalFailed ==
    /\ ma.pc = "loop"
    /\ Len(codecs) > 0 /\ ma.i > Len(codecs)
    /\ ma' = [ma EXCEPT !.pc = "done",
                        !.err = Wrap(<<"fallback marshal failed:">>, ma.joined)]
    /\ UNCHANGED <<codecs, dest, um>>
    /\ UNCHANGED <<selVars, httpVars, expVars, strVars, concVars>>

CodecLists == UNION { [1..n -> CodecSet] : n \in 0..MaxCodecs }

\* No call of the codec group in progress.
IdleCodec ==
    /\ codecs = <<>>
    /\ dest = MkDest("nilptr", Zero)
    /\ um = [Unmarshal0 EXCEPT !.pc = "idle"]
    /\ ma = [Marshal0 EXCEPT !.pc = "idle"]

\* ------------------------------------------------------------------ HTTP
URL == "http://example/err"
Methods == {"GET", "HEAD"}
\* WithMaxBodySize: any int64; non-positive disables the limit.
MaxBodySizes == -1..MaxLimit
MkOpts(method, maxBodySize, valid) ==
    [method |-> method, maxBodySize |-> maxBodySize, valid |-> valid]

ErrBodyTooLarge == Leaf(<<"http provider: body too large">>)
Canceled == Leaf(<<"context canceled">>)
DeadlineExceeded == Leaf(<<"context deadline exceeded">>)
\* What the transport and the response body report when they fail for a
\* reason other than the context.
transportErr == Leaf(<<"connection reset">>)
buildErr == Leaf(<<"invalid method or url">>)

\* context.Background(): a context that is not done.
Background == [state |-> "live", at |-> ""]

\* ctx.Err()
CtxErr(c) ==
    CASE c = "canceled" -> Canceled
      [] c = "deadline" -> DeadlineExceeded
      [] OTHER -> NoErr

\* err.Error(): the error's own text followed by the text of what it wraps.
RECURSIVE Msg(_)
Concat(msgs) ==
    LET F[n \in 0..Len(msgs)] == IF n = 0 THEN <<>> ELSE F[n - 1] \o msgs[n]
    IN  F[Len(msgs)]
Msg(e) == e.name \o Concat([j \in 1..Len(e.inner) |-> Msg(e.inner[j])])
Contains(msg, tok) == \E j \in 1..Len(msg) : msg[j] = tok

\* The response: StatusCode, Status, the declared ContentLength (-1: unknown)
\* and the bytes its body delivers, byte j of the body being j.
StatusCodes == {199, 200, 299, 300, 500}
StatusText(code) ==
    CASE code = 200 -> "OK"
      [] code = 300 -> "Multiple Choices"
      [] code = 500 -> "Internal Server Error"
      [] OTHER -> "status " \o ToString(code)
MkResp(code, length, n) ==
    [code |-> code, status |-> ToString(code) \o " " \o StatusText(code),
     length |-> length, body |-> [j \in 1..n |-> j]]
NoResp == [code |-> 0, status |-> "", length |-> -1, body |-> <<>>]

Read0 == [pc |-> "Idle", why |-> "", requests |-> 0, reads |-> 0, pos |-> 0,
          data |-> <<>>, closed |-> FALSE, isNil |-> TRUE, out |-> <<>>,
          err |-> NoErr, seen |-> NoErr, dropped |-> NoErr]
Terminal == {"Complete", "Failed"}

\* return nil, err (the deferred Close runs when a response was received).
FailLeavesOpen(run, err) ==
    [run EXCEPT !.pc = "Failed", !.isNil = TRUE, !.out = <<>>, !.err = err]
Fail(run, err) ==
    [run EXCEPT !.pc = "Failed", !.isNil = TRUE, !.out = <<>>, !.err = err,
                !.closed = (resp # NoResp) \/ run.closed]

\* resp.StatusCode < 200 || resp.StatusCode >= 300
Non2xx(r) == r.code < 200 \/ r.code >= 300

\* The checks between receiving the headers and streaming the body: the status
\* first, then the declared length against the limit.
AfterHeadersSizeFirst(o, r) ==
    IF o.maxBodySize > 0 /\ r.length > o.maxBodySize THEN "length"
    ELSE IF Non2xx(r) THEN "status"
    ELSE "stream"
AfterHeaders(o, r) ==
    IF Non2xx(r) THEN "status"
    ELSE IF o.maxBodySize > 0 /\ r.length > o.maxBodySize THEN "length"
    ELSE "stream"

\* io.LimitReader(resp.Body, h.opts.maxBodySize+1)
ReadLimitExact(o) == o.maxBodySize
ReadLimit(o) == o.maxBodySize + 1

\* What is left of the LimitReader's quota; without a limit the body's length
\* is all that bounds a read.
QuotaUnbounded(o, run) == MaxBody + 1
QuotaAlwaysLimited(o, run) == ReadLimit(o) - Len(run.data)
Quota(o, run) ==
    IF o.maxBodySize > 0 THEN ReadLimit(o) - Len(run.data) ELSE MaxBody + 1

\* The errors Read returns.  seen is the error client.Do or a Read of the
\* streamed body reported, dropped the error a draining Read reported.
BuildError(o, e) == Wrap(<<"http provider: build request", o.method, URL>>, e)
DoRequestError(o, e) == Wrap(<<"http provider: do request", o.method, URL>>, e)
StatusError(o, r) ==
    Leaf(<<"http provider:", o.method, URL, "unexpected status", r.status>>)
LengthError(o, r) ==
    Wrap(<<"content-length", ToString(r.length), "exceeds limit",
           ToString(o.maxBodySize)>>, ErrBodyTooLarge)
ReadBodyErrorOpaque(o, e) ==
    Leaf(<<"http provider: read body", o.method, URL>> \o Msg(e))
ReadBodyError(o, e) == Wrap(<<"http provider: read body", o.method, URL>>, e)
OverflowError(o, n) ==
    Wrap(<<"read", ToString(n), "exceeds limit", ToString(o.maxBodySize)>>,
         ErrBodyTooLarge)

\* After io.ReadAll returned data without an error.
Finish(run, o) ==
    IF o.maxBodySize > 0 /\ Len(run.data) > o.maxBodySize
    THEN [run EXCEPT !.pc = "Draining", !.why = "overflow"]
    ELSE [run EXCEPT !.pc = "Complete", !.isNil = FALSE, !.out = run.data,
                     !.err = NoErr, !.closed = TRUE]

\* The error of the path that drains the body before it returns.
DrainError(run, o, r) ==
    CASE run.why = "status" -> StatusError(o, r)
      [] run.why = "length" -> LengthError(o, r)
      [] OTHER -> OverflowError(o, Len(run.data))

\* What a failing call of the transport or of the body's Read reports: the
\* context's error once the context is done, a transport error before.
EnvErr ==
    IF ctx.state = "live" THEN transportErr ELSE Wrap(<<"Get", URL>>, CtxErr(ctx.state))
BodyErr == IF ctx.state = "live" THEN transportErr ELSE CtxErr(ctx.state)

\* http.NewRequestWithContext fails.
ReadBuildFails ==
    /\ rd.pc = "Idle"
    /\ ~opts.valid
    /\ rd' = Fail(rd, BuildError(opts, buildErr))
    /\ UNCHANGED <<opts, ctx, resp>>
    /\ UNCHANGED <<selVars, codecVars, expVars, strVars, concVars>>

\* The request is built, its headers are added and client.Do sends it.
ReadSend ==
    /\ rd.pc = "Idle"
    /\ opts.valid
    /\ rd' = [rd EXCEPT !.pc = "RequestSent", !.requests = rd.requests + 1]
    /\ UNCHANGED <<opts, ctx, resp>>
    /\ UNCHANGED <<selVars, codecVars, expVars, strVars, concVars>>

\* client.Do returns an error: the transport failed, or the context is done.
DoFailsRetries ==
    /\ rd.pc = "RequestSent"
    /\ rd' = [rd EXCEPT !.pc = "Idle", !.seen = EnvErr]
    /\ UNCHANGED <<opts, ctx, resp>>
    /\ UNCHANGED <<selVars, codecVars, expVars, strVars, concVars>>
DoFails ==
    /\ rd.pc = "RequestSent"
    /\ rd' = [Fail(rd, DoRequestError(opts, EnvErr)) EXCEPT !.seen = EnvErr]
    /\ UNCHANGED <<opts, ctx, resp>>
    /\ UNCHANGED <<selVars, codecVars, expVars, strVars, concVars>>

\* client.Do returns a response: its headers have arrived.
DoResponds ==
    /\ rd.pc = "RequestSent"
    /\ ctx.state = "live"
    /\ \E code \in StatusCodes, length \in -1..MaxBody, n \in 0..MaxBody :
          resp' = MkResp(code, length, n)
    /\ rd' = [rd EXCEPT !.pc = "HeadersReceived"]
    /\ UNCHANGED <<opts, ctx>>
    /\ UNCHANGED <<selVars, codecVars, expVars, strVars, concVars>>

\* The status check and the Content-Length check.
ReadCheckCompletesHead ==
    /\ rd.pc = "HeadersReceived"
    /\ LET next == AfterHeaders(opts, resp)
       IN  IF next = "stream"
           THEN IF opts.method = "HEAD"
                THEN rd' = [rd EXCEPT !.pc = "Complete", !.isNil = FALSE, !.closed = TRUE]
                ELSE rd' = [rd EXCEPT !.pc = "BodyStreaming"]
           ELSE rd' = [rd EXCEPT !.pc = "Draining", !.why = next]
    /\ UNCHANGED <<opts, ctx, resp>>
    /\ UNCHANGED <<selVars, codecVars, expVars, strVars, concVars>>
ReadCheck ==
    /\ rd.pc = "HeadersReceived"
    /\ LET next == AfterHeaders(opts, resp)
       IN  IF next = "stream"
           THEN rd' = [rd EXCEPT !.pc = "BodyStreaming"]
           ELSE rd' = [rd EXCEPT !.pc = "Draining", !.why = next]
    /\ UNCHANGED <<opts, ctx, resp>>
    /\ UNCHANGED <<selVars, codecVars, expVars, strVars, concVars>>

\* io.ReadAll(reader): one Read that delivers n bytes of the body.
StreamData ==
    /\ rd.pc = "BodyStreaming"
    /\ Quota(opts, rd) > 0
    /\ \E n \in 1..MaxChunk :
          /\ n <= Len(resp.body) - rd.pos
          /\ n <= Quota(opts, rd)
          /\ rd' = [rd EXCEPT !.reads = rd.reads + 1, !.pos = rd.pos + n,
                              !.data = rd.data \o SubSeq(resp.body, rd.pos + 1, rd.pos + n)]
    /\ UNCHANGED <<opts, ctx, resp>>
    /\ UNCHANGED <<selVars, codecVars, expVars, strVars, concVars>>

\* io.ReadAll(reader): the LimitReader's quota is used up, so it reports EOF
\* without reading the body, or the body's Read reports EOF; ReadAll returns.
StreamEOF ==
    /\ rd.pc = "BodyStreaming"
    /\ \/ /\ Quota(opts, rd) <= 0
          /\ rd' = Finish(rd, opts)
       \/ /\ Quota(opts, rd) > 0
          /\ rd.pos = Len(resp.body)
          /\ rd' = Finish([rd EXCEPT !.reads = rd.reads + 1], opts)
    /\ UNCHANGED <<opts, ctx, resp>>
    /\ UNCHANGED <<selVars, codecVars, expVars, strVars, concVars>>

\* io.ReadAll(reader): the body's Read fails.
StreamFails ==
    /\ rd.pc = "BodyStreaming"
    /\ Quota(opts, rd) > 0
    /\ rd' = [Fail([rd EXCEPT !.reads = rd.reads + 1], ReadBodyError(opts, BodyErr))
                EXCEPT !.seen = BodyErr]
    /\ UNCHANGED <<opts, ctx, resp>>
    /\ UNCHANGED <<selVars, codecVars, expVars, strVars, concVars>>

\* io.Copy(io.Discard, resp.Body): one Read whose n bytes are discarded.
DrainData ==
    /\ rd.pc = "Draining"
    /\ \E n \in 1..MaxChunk :
          /\ n <= Len(resp.body) - rd.pos
          /\ rd' = [rd EXCEPT !.reads = rd.reads + 1, !.pos = rd.pos + n]
    /\ UNCHANGED <<opts, ctx, resp>>
    /\ UNCHANGED <<selVars, codecVars, expVars, strVars, concVars>>

\* io.Copy(io.Discard, resp.Body) ends: a Read reports EOF, or a Read fails
\* and the error is dropped (_, _ =); Read returns the error of its path.
DrainEnds ==
    /\ rd.pc = "Draining"
    /\ \/ /\ rd.pos = Len(resp.body)
          /\ rd' = Fail([rd EXCEPT !.reads = rd.reads + 1], DrainError(rd, opts, resp))
       \/ rd' = Fail([rd EXCEPT !.reads = rd.reads + 1, !.dropped = BodyErr],
                     DrainError(rd, opts, resp))
    /\ UNCHANGED <<opts, ctx, resp>>
    /\ UNCHANGED <<selVars, codecVars, expVars, strVars, concVars>>

\* The caller cancels the context, or its deadline passes, while Read runs.
CtxDone ==
    /\ ctx.state = "live"
    /\ rd.pc \notin Terminal \cup {"idle"}
    /\ \E c \in {"canceled", "deadline"} : ctx' = [state |-> c, at |-> rd.pc]
    /\ UNCHANGED <<opts, resp, rd>>
    /\ UNCHANGED <<selVars, codecVars, expVars, strVars, concVars>>

\* No call of Read in progress.
IdleHTTP ==
    /\ opts = MkOpts("GET", 0, TRUE)
    /\ ctx = Background
    /\ resp = NoResp
    /\ rd = [Read0 EXCEPT !.pc = "idle"]

\* ------------------------------------------------------------------ Select.Read
providerErr == Leaf(<<"provider read failed">>)
readErr == Leaf(<<"unexpected EOF">>)

\* What Read of provider p can return when handed a context in state c.  "A"
\* is a provider of fixed bytes (dummyProvider, reader.Bytes): it ignores the
\* context.  "B" is a provider whose Read looks at the context first and can
\* fail: with its own error and nil data (testProvider), or, reading through
\* io.ReadAll as reader.Reader does, with the bytes read so far.
ReadOutcomes(p, c) ==
    IF p = "A" THEN { Out(FALSE, <<1>>, NoErr) }
    ELSE IF c # "live" THEN { Out(TRUE, <<>>, CtxErr(c)) }
    ELSE { Out(FALSE, <<2, 2>>, NoErr),
           Out(TRUE, <<>>, providerErr),
           Out(FALSE, <<2>>, readErr) }

\* The context Select.Read hands to the selected provider.
ProviderCtxBackground(run) == "live"
ProviderCtx(run) == run.ctx

\* provider, err := Selector(s.param, s.cases...); if err != nil: return nil, err
SelectReadNoProvider ==
    /\ sr.pc = "select"
    /\ sel.pc = "done" /\ sel.err # NoErr
    /\ sr' = [sr EXCEPT !.pc = "done", !.isNil = TRUE, !.out = <<>>, !.err = sel.err]
    /\ UNCHANGED <<param, cases, sel, swe>>
    /\ UNCHANGED <<codecVars, httpVars, expVars, strVars, concVars>>

\* return provider.Read(ctx)
SelectReadProvider ==
    /\ sr.pc = "select"
    /\ sel.pc = "done" /\ sel.err = NoErr
    /\ \E r \in ReadOutcomes(sel.prov, ProviderCtx(sr)) :
          sr' = [sr EXCEPT !.pc = "done", !.readOn = sel.prov,
                           !.passed = ProviderCtx(sr), !.got = r,
                           !.isNil = r.isNil, !.out = r.data, !.err = r.err]
    /\ UNCHANGED <<param, cases, sel, swe>>
    /\ UNCHANGED <<codecVars, httpVars, expVars, strVars, concVars>>

\* ------------------------------------------------------------------ ExpandEnv
\* A payload is a sequence of bytes: "a" stands for a letter, "." for a byte
\* that is neither part of a name nor special to the shell syntax.
Bytes == {"a", ".", "$", "{", "}"}
Payloads == UNION { [1..n -> Bytes] : n \in 0..MaxPayload }

\* The process environment: the variable a is set to "v" or unset; every other
\* name is unset.
Envs == {"set", "unset"}
Getenv(env, name) == IF env = "set" /\ name = <<"a">> THEN <<"v">> ELSE <<>>

\* os: isShellSpecialVar and isAlphaNum, over Bytes.
isShellSpecialVar(c) == c = "$"
isAlphaNum(c) == c = "a"

\* os.getShellName(s): the name that starts s and the number of bytes it takes.
RECURSIVE AlphaNumRun(_)
AlphaNumRun(s) ==
    IF s # <<>> /\ isAlphaNum(Head(s)) THEN 1 + AlphaNumRun(Tail(s)) ELSE 0
ShellName(name, w) == [name |-> name, w |-> w]
getShellName(s) ==
    IF s[1] = "{"
    THEN IF Len(s) > 2 /\ isShellSpecialVar(s[2]) /\ s[3] = "}"
         THEN ShellName(<<s[2]>>, 3)
         ELSE LET closing == { i \in 2..Len(s) : s[i] = "}" }
              IN  IF closing = {} THEN ShellName(<<>>, 1)
                  ELSE LET i == CHOOSE k \in closing : \A m \in closing : k <= m
                       IN  IF i = 2 THEN ShellName(<<>>, 2)
                           ELSE ShellName(SubSeq(s, 2, i - 1), i)
    ELSE IF isShellSpecialVar(s[1]) THEN ShellName(<<s[1]>>, 1)
    ELSE ShellName(SubSeq(s, 1, AlphaNumRun(s)), AlphaNumRun(s))

\* os.Expand(s, os.Getenv) from byte j on: a '$' that is not the last byte is
\* replaced by the value of the name after it, dropped with the bytes of a
\* malformed ${, or kept when no name follows.
RECURSIVE ExpandFrom(_, _, _)
ExpandFrom(env, s, j) ==
    IF j > Len(s) THEN <<>>
    ELSE IF s[j] = "$" /\ j + 1 <= Len(s)
    THEN LET n == getShellName(SubSeq(s, j + 1, Len(s)))
             piece == IF n.name = <<>> /\ n.w > 0 THEN <<>>
                      ELSE IF n.name = <<>> THEN <<"$">>
                      ELSE Getenv(env, n.name)
         IN  piece \o ExpandFrom(env, s, j + n.w + 1)
    ELSE <<s[j]>> \o ExpandFrom(env, s, j + 1)

\* os.ExpandEnv(string(data))
ExpandEnvString(env, s) == ExpandFrom(env, s, 1)

HasDollar(s) == \E j \in 1..Len(s) : s[j] = "$"

\* What the wrapped provider's Read can return: a payload (nil only when
\* empty), its own error with nil data, or an error next to the bytes read so
\* far.
WrappedOutcomes ==
    { Out(FALSE, d, NoErr) : d \in Payloads }
        \cup { Out(TRUE, <<>>, NoErr), Out(TRUE, <<>>, providerErr),
               Out(FALSE, <<"$", "a">>, readErr) }

\* ExpandEnv.Read, given what e.provider.Read(ctx) returned.
ExpandEnvResultKeepsData(env, r) ==
    IF r.err # NoErr THEN r
    ELSE IF Len(r.data) = 0 \/ ~HasDollar(r.data) THEN r
    ELSE Out(FALSE, ExpandEnvString(env, r.data), NoErr)
ExpandEnvResult(env, r) ==
    IF r.err # NoErr THEN Out(TRUE, <<>>, r.err)
    ELSE IF Len(r.data) = 0 \/ ~HasDollar(r.data) THEN r
    ELSE Out(FALSE, ExpandEnvString(env, r.data), NoErr)

\* A call of ExpandEnv.Read in progress: got is what the wrapped provider
\* returned, ret what Read returns.
Expand0 == [pc |-> "read", env |-> "unset", got |-> Out(TRUE, <<>>, NoErr),
            ret |-> Out(TRUE, <<>>, NoErr)]

ExpandEnvRead ==
    /\ ex.pc = "read"
    /\ \E r \in WrappedOutcomes :
          ex' = [ex EXCEPT !.pc = "done", !.got = r, !.ret = ExpandEnvResult(ex.env, r)]
    /\ UNCHANGED <<selVars, codecVars, httpVars, strVars, concVars>>

IdleExpand == ex = [Expand0 EXCEPT !.pc = "idle"]

\* ------------------------------------------------------------------ StringCodec
ErrInvalidType == Leaf(<<"invalid type for codec operation">>)
ErrNilPointer == Leaf(<<"nil pointer cannot be marshaled">>)

\* The val handed to the decoder: its dynamic type ("nil" for the nil
\* interface), whether it is a nil pointer, and what it points to or holds, a
\* sequence of bytes.
MkVal(type, isNil, content) == [type |-> type, isNil |-> isNil, content |-> content]
Contents == { <<>>, <<"a">> }
Vals ==
    { MkVal(t, FALSE, c) : t \in {"*string", "*int", "string", "*[]byte"}, c \in Contents }
        \cup { MkVal(t, TRUE, <<>>) : t \in {"*string", "*int", "nil"} }

\* string(data): the bytes of data as they are.
StringOf(data) == [j \in 1..Len(data) |-> data[j]]

\* The decoder of StringCodec: what val holds afterwards and the error.
DecodeRet(val, err) == [val |-> val, err |-> err]
StringDecodeNoNilCheck(data, val) ==
    IF val.type = "*string"
    THEN DecodeRet([val EXCEPT !.content = StringOf(data)], NoErr)
    ELSE DecodeRet(val, ErrInvalidType)
StringDecode(data, val) ==
    IF val.type = "*string"
    THEN IF val.isNil THEN DecodeRet(val, ErrNilPointer)
         ELSE DecodeRet([val EXCEPT !.content = StringOf(data)], NoErr)
    ELSE DecodeRet(val, ErrInvalidType)

\* A call of StringCodec().Unmarshal(data, val) in progress; val0 is val as
\* the caller handed it over.
String0 == [pc |-> "call", data |-> <<>>, val0 |-> MkVal("nil", TRUE, <<>>),
            val |-> MkVal("nil", TRUE, <<>>), err |-> NoErr]

\* codec.Unmarshal: return c.decoder(data, val)
StringUnmarshal ==
    /\ sc.pc = "call"
    /\ LET r == StringDecode(sc.data, sc.val)
       IN  sc' = [sc EXCEPT !.pc = "done", !.val = r.val, !.err = r.err]
    /\ UNCHANGED <<selVars, codecVars, httpVars, expVars, concVars>>

IdleString == sc = [String0 EXCEPT !.pc = "idle"]

\* ------------------------------------------------------------------ concurrent callers
\* What belongs to one call alone: the argument and locals of Selector (param
\* and its loop), of Unmarshal (its loop, joined and the caller's destination)
\* and of HTTP.Read (its request, response and the caller's context).  The
\* case list, the codec list and the provider's options are shared by all
\* calls.
Private ==
    [param |-> param, sel |-> sel, um |-> um, dest |-> dest,
     rd |-> rd, resp |-> resp, ctx |-> ctx]
NoCall ==
    [param |-> 0,
     sel |-> [Call0 EXCEPT !.pc = "idle"],
     um |-> [Unmarshal0 EXCEPT !.pc = "idle"],
     dest |-> MkDest("nilptr", Zero),
     rd |-> [Read0 EXCEPT !.pc = "idle"],
     resp |-> NoResp,
     ctx |-> Background]

\* The scheduler stops the running call and lets the other one run: each
\* finds its own locals as it left them.
SwitchSharesLocals ==
    /\ other # NoCall
    /\ other' = Private
    /\ param' = other.param
    /\ dest' = other.dest /\ resp' = other.resp /\ ctx' = other.ctx
    /\ UNCHANGED <<sel, um, rd>>
    /\ UNCHANGED <<cases, swe, sr, codecs, ma, opts>>
    /\ UNCHANGED <<expVars, strVars>>
Switch ==
    /\ other # NoCall
    /\ other' = Private
    /\ param' = other.param
    /\ sel' = other.sel /\ um' = other.um /\ dest' = other.dest
    /\ rd' = other.rd /\ resp' = other.resp /\ ctx' = other.ctx
    /\ UNCHANGED <<cases, swe, sr, codecs, ma, opts>>
    /\ UNCHANGED <<expVars, strVars>>

IdleConcurrent == other = NoCall

\* What a call returns when it runs alone.  Selector: the provider of the
\* first case that returns one without an error, else ErrNoValidProvider.
GoodCases(p, cs) ==
    { i \in 1..Len(cs) : CaseResult(cs[i], p).err = NoErr /\ CaseResult(cs[i], p).prov # Nil }
FirstOf(S) == CHOOSE i \in S : \A j \in S : i <= j
SelectorAlone(p, cs) ==
    IF GoodCases(p, cs) = {}
    THEN [prov |-> Nil, err |-> ErrNoValidProvider, from |-> 0]
    ELSE [prov |-> cs[FirstOf(GoodCases(p, cs))].prov, err |-> NoErr,
          from |-> FirstOf(GoodCases(p, cs))]

\* Unmarshal: the codecs tried are those up to the first that succeeds (all
\* of them when none does); a staged destination holds what that codec decoded
\* into a zero value or is left as it was, a destination decoded into directly
\* holds the writes of every codec tried.
Succeeding(cs) == { i \in 1..Len(cs) : cs[i].err = NoErr }
Tried(cs) == IF Succeeding(cs) = {} THEN Len(cs) ELSE FirstOf(Succeeding(cs))
WritesOf(cs, v, n) ==
    LET F[k \in 0..n] == IF k = 0 THEN v ELSE CodecWrite(cs[k], F[k - 1])
    IN  F[n]
AggregateMsg(cs) ==
    <<"fallback unmarshal failed:">>
        \o Concat([i \in 1..Len(cs) |-> Msg(CodecErr(i, cs[i].err))])
UnmarshalAlone(cs, kind, v) ==
    [msg |-> IF Len(cs) = 0 THEN <<"fallback unmarshal: no codecs configured">>
             ELSE IF Succeeding(cs) = {} THEN AggregateMsg(cs)
             ELSE <<>>,
     val |-> CASE kind = "nilptr" -> v
               [] kind = "map" -> WritesOf(cs, v, Tried(cs))
               [] OTHER -> IF Succeeding(cs) = {} THEN v
                           ELSE CodecWrite(cs[Tried(cs)], Zero)]

\* HTTP.Read, given the response the call received and the failure its own
\* transport or body reported (seen).
ReadAlone(o, r, seen) ==
    CASE ~o.valid -> Out(TRUE, <<>>, BuildError(o, buildErr))
      [] o.valid /\ r = NoResp -> Out(TRUE, <<>>, DoRequestError(o, seen))
      [] o.valid /\ r # NoResp /\ Non2xx(r) -> Out(TRUE, <<>>, StatusError(o, r))
      [] OTHER ->
           IF o.maxBodySize > 0 /\ r.length > o.maxBodySize
           THEN Out(TRUE, <<>>, LengthError(o, r))
           ELSE IF seen # NoErr THEN Out(TRUE, <<>>, ReadBodyError(o, seen))
           ELSE IF o.maxBodySize > 0 /\ Len(r.body) > o.maxBodySize
           THEN Out(TRUE, <<>>, OverflowError(o, o.maxBodySize + 1))
           ELSE Out(FALSE, r.body, NoErr)

\* The failures a call can be told of are its own: a context error only when
\* its own context is done.
OwnFailure(c) ==
    /\ c.ctx.state = "live" => c.rd.seen \in {NoErr, transportErr}
    /\ c.ctx.state = "canceled" =>
          c.rd.seen \in {NoErr, transportErr, Canceled, Wrap(<<"Get", URL>>, Canceled)}

ResultAsAlone(c) ==
    /\ c.sel.pc = "done" =>
          [prov |-> c.sel.prov, err |-> c.sel.err, from |-> c.sel.from]
              = SelectorAlone(c.param, cases)
    /\ c.um.pc = "done" =>
          [msg |-> Msg(c.um.err), val |-> c.dest.val]
              = UnmarshalAlone(codecs, c.dest.kind, c.um.P)
    /\ c.rd.pc \in Terminal =>
          /\ Out(c.rd.isNil, c.rd.out, c.rd.err) = ReadAlone(opts, c.resp, c.rd.seen)
          /\ OwnFailure(c)

\* C22: two calls of Selector on one case list, of Unmarshal on one codec
\* group with a destination each, or of Read on one HTTP provider, interleaved
\* in any way: no step changes the shared case list, codec list or options,
\* and each call returns what it returns when it runs alone.
C22_ConcurrentCallsIndependent ==
    /\ [](ResultAsAlone(Private) /\ ResultAsAlone(other))
    /\ [][cases' = cases /\ codecs' = codecs /\ opts' = opts]_vars

\* One call of Read completed with its body while the other, started before
\* and canceled by its caller, is halfway through its own body.
C22_Witness ==
    /\ rd.pc = "Complete" /\ Len(rd.out) = 1 /\ ctx.state = "live"
    /\ other.rd.pc = "BodyStreaming" /\ Len(other.rd.data) = 1
    /\ other.ctx.state = "canceled"

\* Two calls of Unmarshal on one group ended differently: one destination
\* staged and committed, the other a map decoded into directly.
C22_WitnessCodec ==
    /\ um.pc = "done" /\ other.um.pc = "done"
    /\ Len(codecs) = 2 /\ um.by = 2 /\ other.um.by = 2
    /\ dest.kind = "ptr" /\ other.dest.kind = "map"
    /\ dest.val # other.dest.val

\* Two calls of Selector on one case list with different arguments selected
\* different providers.
C22_WitnessSelector ==
    /\ sel.pc = "done" /\ other.sel.pc = "done"
    /\ param # other.param
    /\ sel.prov # Nil /\ other.sel.prov # Nil /\ sel.prov # other.sel.prov

\* ------------------------------------------------------------------ specifications
\* One specification per component; the other components stay idle.
InitHTTP ==
    /\ opts \in { MkOpts(m, size, v) : m \in Methods, size \in MaxBodySizes, v \in BOOLEAN }
    /\ ctx = Background
    /\ resp = NoResp
    /\ rd = Read0
    /\ IdleSelector
    /\ IdleCodec
    /\ IdleExpand
    /\ IdleString
    /\ IdleConcurrent

NextHTTP ==
    \/ ReadBuildFails
    \/ ReadSend
    \/ DoFails
    \/ DoResponds
    \/ ReadCheck
    \/ StreamData
    \/ StreamEOF
    \/ StreamFails
    \/ DrainData
    \/ DrainEnds
    \/ CtxDone

SpecHTTP == InitHTTP /\ [][NextHTTP]_vars

\* A behaviour is one call on a group: of Unmarshal into dest, or of Marshal.
InitCodec ==
    /\ codecs \in CodecLists
    /\ dest \in Dests
    /\ \/ /\ um = [Unmarshal0 EXCEPT !.P = dest.val]
          /\ ma = [Marshal0 EXCEPT !.pc = "idle"]
       \/ /\ um = [Unmarshal0 EXCEPT !.pc = "idle"]
          /\ ma = Marshal0
    /\ IdleSelector
    /\ IdleHTTP
    /\ IdleExpand
    /\ IdleString
    /\ IdleConcurrent

NextCodec ==
    \/ UnmarshalNoCodecs
    \/ UnmarshalStaged
    \/ UnmarshalDirect
    \/ UnmarshalFailed
    \/ MarshalNoCodecs
    \/ MarshalStep
    \/ MarshalFailed

SpecCodec == InitCodec /\ [][NextCodec]_vars

InitSelector ==
    /\ param \in Params
    /\ cases \in CaseLists
    /\ sel = Call0
    /\ swe = Call0
    /\ sr = [SelectRead0 EXCEPT !.pc = "idle"]
    /\ IdleCodec
    /\ IdleHTTP
    /\ IdleExpand
    /\ IdleString
    /\ IdleConcurrent

NextSelector ==
    \/ SelectorStep
    \/ SelectorReturn
    \/ SelectorWithErrorsStep
    \/ SelectorWithErrorsReturn

SpecSelector == InitSelector /\ [][NextSelector]_vars

\* Select.Read: the Selector call it makes is sel.
InitSelect ==
    /\ param \in Params
    /\ cases \in CaseLists
    /\ sel = Call0
    /\ swe = [Call0 EXCEPT !.pc = "idle"]
    /\ sr \in { [SelectRead0 EXCEPT !.ctx = c] : c \in {"live", "canceled"} }
    /\ IdleCodec
    /\ IdleHTTP
    /\ IdleExpand
    /\ IdleString
    /\ IdleConcurrent

NextSelect ==
    \/ SelectorStep
    \/ SelectorReturn
    \/ SelectReadNoProvider
    \/ SelectReadProvider

SpecSelect == InitSelect /\ [][NextSelect]_vars

\* ExpandEnv.Read under either environment.
InitExpand ==
    /\ ex \in { [Expand0 EXCEPT !.env = e] : e \in Envs }
    /\ IdleSelector
    /\ IdleCodec
    /\ IdleHTTP
    /\ IdleString
    /\ IdleConcurrent

NextExpand == ExpandEnvRead

SpecExpand == InitExpand /\ [][NextExpand]_vars

\* StringCodec().Unmarshal of every payload into every val.
InitString ==
    /\ sc \in { [String0 EXCEPT !.data = d, !.val0 = v, !.val = v] :
                   d \in Payloads, v \in Vals }
    /\ IdleSelector
    /\ IdleCodec
    /\ IdleHTTP
    /\ IdleExpand
    /\ IdleConcurrent

NextString == StringUnmarshal

SpecString == InitString /\ [][NextString]_vars

\* Two concurrent callers of Selector on one case list, of Unmarshal on one
\* codec group with a destination each, or of Read on one HTTP provider with a
\* context each.
ConcCaseLists == UNION { [1..n -> CaseSet] : n \in 0..MaxConcCases }
ConcCodecLists == UNION { [1..n -> CodecSet] : n \in 0..MaxConcCodecs }
ConcDests ==
    { MkDest("ptr", [a |-> 1, b |-> 1]), MkDest("map", Zero), MkDest("nilptr", Zero) }
ConcOpts == { MkOpts("GET", 1, v) : v \in BOOLEAN }

\* The responses and context errors the two calls of Read meet.
ConcResp(r) ==
    /\ r.code \in {200, 500}
    /\ Len(r.body) <= MaxConcBody
    /\ r.length \in {-1, Len(r.body)}
ConcCtx(c) == c.state # "deadline"
ConcDoResponds == DoResponds /\ ConcResp(resp')
ConcCtxDone == CtxDone /\ ConcCtx(ctx')

InitConcurrent ==
    \/ /\ param \in Params
       /\ cases \in ConcCaseLists
       /\ sel = Call0
       /\ other \in { [NoCall EXCEPT !.sel = Call0, !.param = q] : q \in Params }
       /\ swe = [Call0 EXCEPT !.pc = "idle"]
       /\ sr = [SelectRead0 EXCEPT !.pc = "idle"]
       /\ IdleCodec
       /\ IdleHTTP
       /\ IdleExpand
       /\ IdleString
    \/ /\ codecs \in ConcCodecLists
       /\ dest \in ConcDests
       /\ um = [Unmarshal0 EXCEPT !.P = dest.val]
       /\ ma = [Marshal0 EXCEPT !.pc = "idle"]
       /\ other \in { [NoCall EXCEPT !.dest = d, !.um = [Unmarshal0 EXCEPT !.P = d.val]] :
                         d \in ConcDests }
       /\ IdleSelector
       /\ IdleHTTP
       /\ IdleExpand
       /\ IdleString
    \/ /\ opts \in ConcOpts
       /\ ctx = Background
       /\ resp = NoResp
       /\ rd = Read0
       /\ other = [NoCall EXCEPT !.rd = Read0]
       /\ IdleSelector
       /\ IdleCodec
       /\ IdleExpand
       /\ IdleString

NextConcurrent ==
    \/ Switch
    \/ SelectorStep
    \/ SelectorReturn
    \/ UnmarshalNoCodecs
    \/ UnmarshalStaged
    \/ UnmarshalDirect
    \/ UnmarshalFailed
    \/ ReadBuildFails
    \/ ReadSend
    \/ DoFails
    \/ ConcDoResponds
    \/ ReadCheck
    \/ StreamData
    \/ StreamEOF
    \/ StreamFails
    \/ DrainData
    \/ DrainEnds
    \/ ConcCtxDone

SpecConcurrent == InitConcurrent /\ [][NextConcurrent]_vars

\* The components together: a behaviour is a run of one of them.
Init ==
    \/ InitSelector \/ InitCodec \/ InitHTTP \/ InitSelect \/ InitExpand
    \/ InitString \/ InitConcurrent

Next ==
    \/ NextSelector \/ NextCodec \/ NextHTTP \/ NextSelect \/ NextExpand
    \/ NextString \/ NextConcurrent

Spec == Init /\ [][Next]_vars

\* ------------------------------------------------------------------ claims: Selector
\* Good(i): case i returns a non-nil provider with a nil error for param.
Good(i) ==
    /\ CaseResult(cases[i], param).prov # Nil
    /\ CaseResult(cases[i], param).err = NoErr
FirstGood == { i \in 1..Len(cases) : Good(i) /\ \A j \in 1..(i - 1) : ~Good(j) }
Runs == {sel, swe}

\* C1: Selector and SelectorWithErrors return the provider of the lowest-index
\* case that returns (non-nil provider, nil error); earlier cases that were not
\* matched, failed or returned (nil, nil) do not end the selection, and later
\* cases do not change the result.
C1_FirstMatchWins ==
    \A run \in Runs : \A i \in FirstGood :
        /\ run.pc = "loop" => run.i <= i
        /\ run.pc = "done" =>
              /\ run.prov = CaseResult(cases[i], param).prov
              /\ run.from = i
              /\ run.err = NoErr

\* Both calls returned the provider of case 2 although case 1 failed with a
\* construction error and case 3 would have produced another provider.
C1_Witness ==
    /\ Len(cases) = 3
    /\ sel.pc = "done" /\ swe.pc = "done"
    /\ sel.from = 2 /\ swe.from = 2
    /\ CaseResult(cases[1], param).err = constructionErr
    /\ Good(3)
    /\ CaseResult(cases[3], param).prov # sel.prov

\* C2: when no case returns (non-nil provider, nil error) -- the list is empty,
\* every predicate is false, every factory fails or yields nil -- both modes
\* return a nil provider and an error matching ErrNoValidProvider; neither mode
\* ever returns (nil, nil).
C2_NoValidProvider ==
    \A run \in Runs :
        run.pc = "done" =>
            /\ ~(run.prov = Nil /\ run.err = NoErr)
            /\ FirstGood = {} => (run.prov = Nil /\ Is(run.err, ErrNoValidProvider))

\* Both calls failed on a list holding a raw (nil, nil) case and an unmatched
\* predicate.
C2_Witness ==
    /\ sel.pc = "done" /\ swe.pc = "done"
    /\ sel.prov = Nil /\ swe.prov = Nil
    /\ \E i, j \in 1..Len(cases) :
          /\ cases[i].kind = "raw" /\ CaseResult(cases[i], param) = Ret(Nil, NoErr)
          /\ cases[j].kind = "If" /\ param \notin cases[j].cond

\* C9: when SelectorWithErrors selects no provider its error matches
\* ErrNoValidProvider, every case error that does not match ErrNotMatched,
\* and ErrNilProvider whenever some case returned (nil, nil).
C9_CausesRecoverable ==
    (swe.pc = "done" /\ swe.prov = Nil) =>
        /\ Is(swe.err, ErrNoValidProvider)
        /\ \A i \in 1..Len(cases) :
              LET r == CaseResult(cases[i], param) IN
              /\ (r.err # NoErr /\ ~Is(r.err, ErrNotMatched)) => Is(swe.err, r.err)
              /\ (r.err = NoErr /\ r.prov = Nil) => Is(swe.err, ErrNilProvider)

\* SelectorWithErrors failed after a factory error, a (nil, nil) case and a
\* case that returned a provider together with an error.
C9_Witness ==
    /\ swe.pc = "done" /\ swe.prov = Nil
    /\ \E i, j, l \in 1..Len(cases) :
          /\ CaseResult(cases[i], param) = Ret(Nil, constructionErr)
          /\ CaseResult(cases[j], param) = Ret(Nil, NoErr)
          /\ CaseResult(cases[l], param) = Ret("A", boom)

IsPrefix(s, t) == Len(s) <= Len(t) /\ s = SubSeq(t, 1, Len(s))

\* C10: on the same parameter and case list, Selector and SelectorWithErrors
\* invoke the same cases in the same order, and either return the same
\* provider from the same case or both fail with an error matching
\* ErrNoValidProvider.
C10_ModesAgree ==
    /\ IsPrefix(sel.calls, swe.calls) \/ IsPrefix(swe.calls, sel.calls)
    /\ (sel.pc = "done" /\ swe.pc = "done") =>
          /\ sel.calls = swe.calls
          /\ \/ /\ sel.prov # Nil /\ sel.prov = swe.prov /\ sel.from = swe.from
                /\ sel.err = NoErr /\ swe.err = NoErr
             \/ /\ sel.prov = Nil /\ swe.prov = Nil
                /\ Is(sel.err, ErrNoValidProvider) /\ Is(swe.err, ErrNoValidProvider)

\* Both modes finished a three-case selection whose first case failed with an
\* error that only the diagnostic mode's result carries.
C10_Witness ==
    /\ sel.pc = "done" /\ swe.pc = "done"
    /\ Len(cases) = 3
    /\ \E i \in 1..Len(cases) : CaseResult(cases[i], param).err = boom
    /\ sel.prov = Nil
    /\ Is(swe.err, boom) /\ ~Is(sel.err, boom)

\* How often the call ev occurs in the log of run.
Count(run, ev) == Cardinality({ n \in 1..Len(run.calls) : run.calls[n] = ev })
Built == {"If", "IfE"}

\* C15: within one selection, in either mode, a case built with If or IfE
\* calls its predicate at most once and its factory at most once, the factory
\* only directly after its predicate and only when the predicate accepted the
\* parameter; when the predicate rejects it the factory is never called and the
\* case returns (nil, ErrNotMatched).
C15_FactoryOnlyWhenMatched ==
    \A run \in Runs : \A i \in 1..Len(cases) :
        cases[i].kind \in Built =>
            /\ Count(run, <<"cond", i>>) <= 1
            /\ Count(run, <<"then", i>>) <= 1
            /\ Count(run, <<"cond", i>>) = Count(run, <<"case", i>>)
            /\ \A n \in 1..Len(run.calls) :
                  run.calls[n] = <<"then", i>> =>
                      /\ param \in cases[i].cond
                      /\ n > 1 /\ run.calls[n - 1] = <<"cond", i>>
            /\ (param \in cases[i].cond) =>
                  Count(run, <<"then", i>>) = Count(run, <<"cond", i>>)
            /\ (param \notin cases[i].cond) =>
                  /\ Count(run, <<"then", i>>) = 0
                  /\ CaseResult(cases[i], param) = Ret(Nil, ErrNotMatched)

\* Both selections returned the provider of the third case after an If case
\* and an IfE case whose predicates rejected the parameter.
C15_Witness ==
    /\ Len(cases) = 3
    /\ sel.pc = "done" /\ swe.pc = "done"
    /\ cases[1].kind = "If" /\ param \notin cases[1].cond
    /\ cases[2].kind = "IfE" /\ param \notin cases[2].cond
    /\ cases[3].kind \in Built /\ sel.from = 3 /\ swe.from = 3
    /\ Count(sel, <<"cond", 1>>) = 1 /\ Count(swe, <<"cond", 2>>) = 1
    /\ Count(sel, <<"then", 3>>) = 1

\* C16: once the case of index k has yielded a non-nil provider the call, in
\* either mode, has returned it, and its log holds no call of a case, a
\* predicate or a factory of an index above k.
C16_ReturnsAtFirstProvider ==
    \A run \in Runs :
        /\ run.from > 0 =>
              /\ run.pc = "done" /\ run.prov # Nil /\ run.err = NoErr
              /\ \A n \in 1..Len(run.calls) : run.calls[n][2] <= run.from
        /\ \A i \in 1..Len(cases) :
              (Good(i) /\ Count(run, <<"case", i>>) > 0) =>
                  /\ run.from = i
                  /\ \A j \in (i + 1)..Len(cases) :
                        /\ Count(run, <<"case", j>>) = 0
                        /\ Count(run, <<"cond", j>>) = 0
                        /\ Count(run, <<"then", j>>) = 0

\* Both selections returned the provider of the first case; two cases built
\* with If and IfE follow it, the first of which would yield a provider too.
C16_Witness ==
    /\ Len(cases) = 3
    /\ sel.pc = "done" /\ swe.pc = "done"
    /\ sel.from = 1 /\ swe.from = 1
    /\ cases[2].kind = "If" /\ Good(2)
    /\ cases[3].kind = "IfE"

\* Some case called by run returned an error matching ErrNotMatched.
ReportedNotMatched(run) ==
    \E i \in 1..Len(cases) :
        /\ Count(run, <<"case", i>>) > 0
        /\ Is(CaseResult(cases[i], param).err, ErrNotMatched)

\* C17: when some case reported ErrNotMatched and the call returns no
\* provider, its error matches ErrNoValidProvider and is not ErrNotMatched
\* itself; no error SelectorWithErrors collects matches ErrNotMatched, and so
\* neither does the error it returns.
C17_NotMatchedFolded ==
    /\ \A run \in Runs :
          (run.pc = "done" /\ run.prov = Nil /\ ReportedNotMatched(run)) =>
              /\ Is(run.err, ErrNoValidProvider)
              /\ run.err # ErrNotMatched
    /\ \A j \in 1..Len(swe.joined) : ~Is(swe.joined[j], ErrNotMatched)
    /\ swe.pc = "done" => ~Is(swe.err, ErrNotMatched)

\* Both calls returned no provider for a list in which a predicate rejected
\* the parameter, a caller-written case returned a wrapped ErrNotMatched and a
\* factory failed: the diagnostic error holds the factory's failure.
C17_Witness ==
    /\ sel.pc = "done" /\ swe.pc = "done"
    /\ sel.prov = Nil /\ swe.prov = Nil
    /\ \E i, j, k \in 1..Len(cases) :
          /\ CaseResult(cases[i], param) = Ret(Nil, ErrNotMatched)
          /\ CaseResult(cases[j], param).err = Wrap(<<"skip">>, ErrNotMatched)
          /\ CaseResult(cases[k], param).err = constructionErr
    /\ Is(swe.err, constructionErr)

\* C18 as stated: whenever Select.Read returns an error its data is nil.
C18_Original ==
    (sr.pc = "done" /\ sr.err # NoErr) => sr.isNil

\* C18: Select.Read returns after the selection over (param, cases).  When the
\* selection yields no provider it returns nil data and the selection's error,
\* which matches ErrNoValidProvider, and no provider is read.  Otherwise it
\* calls Read on the provider of the first yielding case, with the caller's
\* context, and returns what that Read returned, data and error unchanged: the
\* provider's bytes on success, the provider's own error on failure, and
\* context.Canceled with nil data from a provider that looks at an already
\* cancelled context.
C18_SelectRead ==
    sr.pc = "done" =>
        /\ sel.pc = "done"
        /\ IF FirstGood = {}
           THEN /\ sr.isNil /\ sr.out = <<>>
                /\ Is(sr.err, ErrNoValidProvider)
                /\ sr.readOn = Nil
           ELSE /\ \A i \in FirstGood : sr.readOn = CaseResult(cases[i], param).prov
                /\ sr.passed = sr.ctx
                /\ sr.got \in ReadOutcomes(sr.readOn, sr.ctx)
                /\ Out(sr.isNil, sr.out, sr.err) = sr.got
                /\ (sr.readOn = "B" /\ sr.ctx = "canceled") =>
                      (sr.isNil /\ Is(sr.err, Canceled))

\* Select.Read returned context.Canceled and nil data: the first case was not
\* matched, the second yielded a provider that looks at the context, and the
\* caller's context was cancelled before the call.
C18_Witness ==
    /\ sr.pc = "done" /\ sr.ctx = "canceled"
    /\ Len(cases) = 2
    /\ CaseResult(cases[1], param) = Ret(Nil, ErrNotMatched)
    /\ sr.readOn = "B"
    /\ sr.isNil /\ sr.err = Canceled

\* ------------------------------------------------------------------ claims: FallbackCodecGroup
\* C3: with a non-nil pointer destination that held P, the destination holds
\* exactly P for as long as no codec has succeeded, and so when Unmarshal
\* returns its error after every codec failed -- also when a failing codec wrote
\* fields into the value it was handed.
C3_FailureLeavesDest ==
    (dest.kind = "ptr" /\ um.pc # "idle" /\ ~(um.pc = "done" /\ um.err = NoErr)) =>
        dest.val = um.P

\* Unmarshal returned its error for a group of two failing codecs, one of which
\* wrote a field of the value it was handed; the destination held a non-zero P.
C3_Witness ==
    /\ um.pc = "done" /\ um.err # NoErr
    /\ dest.kind = "ptr"
    /\ um.P = [a |-> 1, b |-> 2]
    /\ Len(codecs) = 2
    /\ \E n \in 1..Len(um.calls) : um.calls[n].after # um.calls[n].before

\* C4: when Unmarshal succeeds with a non-nil pointer destination, the
\* destination equals the value V the succeeding codec produces from a fresh
\* zero value, whatever P was and whatever earlier failing codecs wrote; the
\* succeeding codec is the first of the group that does not fail.
C4_SuccessReplacesDest ==
    (um.pc = "done" /\ um.err = NoErr /\ dest.kind = "ptr") =>
        /\ um.by \in 1..Len(codecs)
        /\ codecs[um.by].err = NoErr
        /\ \A j \in 1..(um.by - 1) : codecs[j].err # NoErr
        /\ dest.val = CodecWrite(codecs[um.by], Zero)

\* The second codec succeeded writing one field only, after the first wrote the
\* other field into its own temporary and failed; P was non-zero in both
\* fields and the destination now holds neither P's fields nor the first
\* codec's write.
C4_Witness ==
    /\ um.pc = "done" /\ um.err = NoErr /\ dest.kind = "ptr"
    /\ um.by = 2
    /\ um.P = [a |-> 1, b |-> 1]
    /\ codecs[1] = MkCodec(2, Keep, bad, <<1>>, bad)
    /\ codecs[2] = MkCodec(Keep, 2, NoErr, <<2>>, NoErr)
    /\ dest.val = [a |-> 0, b |-> 2]

\* The error's text holds, somewhere, the tag of position i (counted from 0)
\* directly followed by the text of cause.
TaggedAt(msg, i, cause) ==
    LET tag == "codec[" \o ToString(i - 1) \o "]:"
        txt == Msg(cause)
    IN  \E j \in 1..Len(msg) :
            /\ msg[j] = tag
            /\ j + Len(txt) <= Len(msg)
            /\ SubSeq(msg, j + 1, j + Len(txt)) = txt

\* The kind DecodeExhausted: the error Unmarshal builds after its loop.  The
\* package declares no sentinel for it; the kind is carried by the error's text.
DecodeExhausted(err) ==
    /\ err.k = "wrap"
    /\ Msg(err)[1] = "fallback unmarshal failed:"

C12_InOrderStopAtSuccess ==
    /\ Len(um.calls) <= Len(codecs)
    /\ \A n \in 1..Len(um.calls) : um.calls[n].codec = n
    /\ \A n \in 1..Len(um.calls) :
          codecs[n].err = NoErr =>
              /\ um.pc = "done" /\ um.err = NoErr
              /\ um.by = n
              /\ Len(um.calls) = n

\* The second of three codecs succeeded, after the first failed; a third codec
\* that would succeed too follows it.
C12_Witness ==
    /\ um.pc = "done" /\ um.err = NoErr
    /\ Len(codecs) = 3
    /\ codecs[1].err # NoErr /\ codecs[2].err = NoErr /\ codecs[3].err = NoErr
    /\ Len(um.calls) = 2

\* C13: Marshal calls the codecs' Marshal in the group's order; when it
\* returns for a non-empty group it either returns the bytes of the first codec
\* whose Marshal does not fail, having called no codec after that one, or, when
\* every codec's Marshal fails, nil bytes and one error that matches every
\* codec's error under errors.Is and shows each behind its position tag.
C13_MarshalFirstSuccess ==
    /\ \A n \in 1..Len(ma.calls) : ma.calls[n] = n
    /\ (ma.pc = "done" /\ Len(codecs) > 0) =>
          IF \E i \in 1..Len(codecs) : codecs[i].merr = NoErr
          THEN /\ ma.err = NoErr /\ ~ma.isNil
               /\ ma.by \in 1..Len(codecs)
               /\ codecs[ma.by].merr = NoErr
               /\ \A j \in 1..(ma.by - 1) : codecs[j].merr # NoErr
               /\ ma.out = codecs[ma.by].enc
               /\ Len(ma.calls) = ma.by
          ELSE /\ ma.isNil /\ ma.out = <<>>
               /\ Len(ma.calls) = Len(codecs)
               /\ Msg(ma.err)[1] = "fallback marshal failed:"
               /\ \A i \in 1..Len(codecs) :
                     /\ Is(ma.err, codecs[i].merr)
                     /\ TaggedAt(Msg(ma.err), i, codecs[i].merr)

\* Marshal returned the second codec's bytes after the first codec failed
\* while handing back bytes of its own; a third codec with other bytes follows.
C13_Witness ==
    /\ ma.pc = "done" /\ ma.err = NoErr
    /\ Len(codecs) = 3
    /\ codecs[1].merr = bad /\ codecs[1].enc = <<1>>
    /\ codecs[2].merr = NoErr /\ codecs[2].enc = <<2>>
    /\ codecs[3].merr = NoErr /\ codecs[3].enc = <<1>>
    /\ ma.out = <<2>>

\* Every codec of a group of two failed in Marshal, with different errors.
C13_WitnessAllFail ==
    /\ ma.pc = "done" /\ ma.err # NoErr /\ ma.isNil
    /\ Len(codecs) = 2
    /\ codecs[1].merr = nope1 /\ codecs[2].merr = bad

NoCodecsUnmarshal == Leaf(<<"fallback unmarshal: no codecs configured">>)
NoCodecsMarshal == Leaf(<<"fallback marshal: no codecs configured">>)

\* C14: for a group without codecs, Unmarshal and Marshal return their
\* 'no codecs configured' error having called nothing, Marshal with nil bytes,
\* and the destination holds what it held; that error is not of the kind the
\* aggregate of failed codecs has, and no aggregate of a non-empty group is the
\* 'no codecs configured' error or starts with its text.
C14_NoCodecs ==
    /\ (Len(codecs) = 0 /\ um.pc = "done") =>
          /\ um.err = NoCodecsUnmarshal
          /\ ~DecodeExhausted(um.err)
          /\ um.calls = <<>>
          /\ dest.val = um.P
    /\ (Len(codecs) = 0 /\ ma.pc = "done") =>
          /\ ma.err = NoCodecsMarshal
          /\ Msg(ma.err)[1] # "fallback marshal failed:"
          /\ ma.isNil /\ ma.calls = <<>>
    /\ (Len(codecs) > 0 /\ um.pc = "done" /\ um.err # NoErr) =>
          /\ um.err # NoCodecsUnmarshal
          /\ Msg(um.err)[1] # Msg(NoCodecsUnmarshal)[1]
    /\ (Len(codecs) > 0 /\ ma.pc = "done" /\ ma.err # NoErr) =>
          /\ ma.err # NoCodecsMarshal
          /\ Msg(ma.err)[1] # Msg(NoCodecsMarshal)[1]

\* Unmarshal returned for a group without codecs; the destination is a pointer
\* to a non-zero value.
C14_Witness ==
    /\ Len(codecs) = 0
    /\ um.pc = "done"
    /\ dest = MkDest("ptr", [a |-> 1, b |-> 2])

\* C25: when the destination is not a pointer, or is a nil pointer, every
\* codec called is handed the destination itself, never a temporary: it finds
\* there what the destination held when Unmarshal was called or what the codec
\* before it left, and what it writes is in the destination afterwards.  The
\* codecs are called in the group's order, and when all have failed the error
\* matches each codec's cause and shows it behind its position tag.
C25_DirectDecode ==
    (dest.kind # "ptr" /\ um.pc # "idle") =>
        /\ \A n \in 1..Len(um.calls) :
              /\ um.calls[n].target = "dest"
              /\ um.calls[n].codec = n
              /\ um.calls[n].before = IF n = 1 THEN um.P ELSE um.calls[n - 1].after
        /\ dest.val = IF um.calls = <<>> THEN um.P ELSE um.calls[Len(um.calls)].after
        /\ (um.pc = "done" /\ um.err # NoErr /\ Len(codecs) > 0) =>
              /\ Len(um.calls) = Len(codecs)
              /\ \A i \in 1..Len(codecs) :
                    /\ Is(um.err, codecs[i].err)
                    /\ TaggedAt(Msg(um.err), i, codecs[i].err)

\* Unmarshal into a map failed after both codecs failed; the first codec wrote
\* a field before failing, the second found that write in the value it was
\* handed, and the caller's map holds it.
C25_Witness ==
    /\ dest.kind = "map"
    /\ um.pc = "done" /\ um.err # NoErr
    /\ Len(codecs) = 2
    /\ um.P.a = 1
    /\ um.calls[1].after.a = 2
    /\ um.calls[2].before.a = 2
    /\ dest.val.a = 2

\* ------------------------------------------------------------------ claims: HTTP.Read
Returned == rd.pc \in Terminal
Received == resp # NoResp
Succeeded == rd.pc = "Complete" /\ ~rd.isNil /\ rd.err = NoErr
FailedNoData == rd.pc = "Failed" /\ rd.isNil /\ rd.out = <<>> /\ rd.err # NoErr

C6_Original ==
    (Returned /\ Received /\ ~Non2xx(resp)
        /\ opts.maxBodySize > 0 /\ resp.length > opts.maxBodySize) =>
        /\ FailedNoData
        /\ Is(rd.err, ErrBodyTooLarge)
        /\ rd.reads = 0

C8_StatusError ==
    (Returned /\ Received /\ Non2xx(resp)) =>
        /\ FailedNoData
        /\ Contains(Msg(rd.err), opts.method)
        /\ Contains(Msg(rd.err), URL)
        /\ Contains(Msg(rd.err), resp.status)
        /\ Contains(Msg(rd.err), "unexpected status")
        /\ ~Is(rd.err, ErrBodyTooLarge)

\* A 500 response that declared more than the limit failed with the status
\* error.
C8_Witness ==
    /\ rd.pc = "Failed"
    /\ Received
    /\ resp.code = 500
    /\ opts.maxBodySize = 1
    /\ resp.length = 3
    /\ Contains(Msg(rd.err), "500 Internal Server Error")

\* C19: with a max body size of zero (the value when the option is never
\* given) or below, Read never returns an error matching ErrBodyTooLarge, and
\* for a 2xx response whose body is read without a transport error it returns
\* the whole body, whatever its length and whatever length was declared.
C19_NoLimit ==
    opts.maxBodySize <= 0 =>
        /\ ~Is(rd.err, ErrBodyTooLarge)
        /\ (Returned /\ Received /\ ~Non2xx(resp) /\ rd.seen = NoErr) =>
              (Succeeded /\ rd.out = resp.body)

\* Read returned a body of MaxBody bytes, declared as such, under the default
\* max body size of zero.
C19_Witness ==
    /\ Succeeded
    /\ opts.maxBodySize = 0
    /\ resp.length = MaxBody
    /\ Len(rd.out) = MaxBody

\* C20: one call of Read sends at most one request through the client: none
\* before it fails to build the request, and exactly one when it has a
\* response or returns after the request was sent, whatever made it fail.
C20_NoRetry ==
    /\ rd.requests <= 1
    /\ Received => rd.requests = 1
    /\ (Returned /\ rd.err # NoErr /\ opts.valid) => rd.requests = 1

\* Read returned the transport's error after its one request.
C20_Witness ==
    /\ rd.pc = "Failed"
    /\ resp = NoResp
    /\ rd.seen = transportErr
    /\ rd.requests = 1

\* The phase of the fetch a call is in.  Draining the body is part of the
\* phase whose check failed: the status and the declared length are checked
\* with the headers received, the overflow is found while streaming.
Phase(run) ==
    IF run.pc = "Draining"
    THEN IF run.why = "overflow" THEN "BodyStreaming" ELSE "HeadersReceived"
    ELSE run.pc
NonTerminal == {"Idle", "RequestSent", "HeadersReceived", "BodyStreaming"}
Edges ==
    { <<"Idle", "RequestSent">>, <<"RequestSent", "HeadersReceived">>,
      <<"HeadersReceived", "BodyStreaming">>, <<"BodyStreaming", "Complete">> }
        \cup { <<ph, "Failed">> : ph \in NonTerminal }

\* C24: a call of Read is always in one of the six phases; each step keeps it
\* in its non-terminal phase or moves it along Idle -> RequestSent ->
\* HeadersReceived -> BodyStreaming -> Complete or from a non-terminal phase to
\* Failed; nothing changes once it is in Complete or Failed; Complete holds
\* data and no error, Failed an error and no data; and in every non-terminal
\* phase a failing step is possible (from Idle when the request cannot be
\* built, while streaming as long as the body is still read).
C24_StateMachine ==
    /\ [](/\ Phase(rd) \in NonTerminal \cup Terminal
          /\ rd.pc = "Complete" => (~rd.isNil /\ rd.err = NoErr)
          /\ rd.pc = "Failed" => (rd.isNil /\ rd.out = <<>> /\ rd.err # NoErr)
          /\ (rd.pc = "Idle" /\ ~opts.valid) => ENABLED ReadBuildFails
          /\ rd.pc = "RequestSent" => ENABLED DoFails
          /\ (rd.pc = "BodyStreaming" /\ Quota(opts, rd) > 0) => ENABLED StreamFails
          /\ rd.pc = "Draining" => ENABLED DrainEnds)
    /\ [][/\ Phase(rd) \in Terminal => rd' = rd
          /\ Phase(rd') # Phase(rd) => <<Phase(rd), Phase(rd')>> \in Edges]_vars

\* Read returned a body of three bytes delivered by two reads: it went through
\* every phase up to Complete.
C24_Witness ==
    /\ rd.pc = "Complete"
    /\ rd.requests = 1 /\ resp # NoResp
    /\ Len(rd.out) = 3 /\ rd.reads = 3

\* C26 as stated: when Read returns after a response was received the body
\* is closed, and on the non-2xx path every byte of the body was read before.
C26_Original ==
    (Returned /\ Received) =>
        /\ rd.closed
        /\ Non2xx(resp) => rd.pos = Len(resp.body)

\* C26: the body is closed exactly when Read has returned after a response
\* was received, on every path; on the non-2xx path the body was read to its
\* end before, unless a Read of the drain failed, which ends the drain.
C26_BodyClosed ==
    /\ rd.closed <=> (Returned /\ Received)
    /\ (Returned /\ Received /\ Non2xx(resp)) =>
          /\ rd.why = "status"
          /\ rd.dropped = NoErr => rd.pos = Len(resp.body)

\* Read returned the status error of a 500 response after draining its body
\* of MaxBody bytes, and the body is closed.
C26_Witness ==
    /\ rd.pc = "Failed" /\ rd.closed
    /\ resp # NoResp /\ resp.code = 500
    /\ Len(resp.body) = MaxBody
    /\ rd.pos = MaxBody
    /\ rd.dropped = NoErr

\* C27: with a limit M > 0, Read never holds more than M + 1 bytes of the
\* body, and what it holds is the body's beginning; the bytes read past those
\* are read by the drain only, which keeps none; Read returns at most M bytes.
C27_BoundedAccumulation ==
    opts.maxBodySize > 0 =>
        /\ Len(rd.data) <= opts.maxBodySize + 1
        /\ Received => (/\ Len(rd.data) <= Len(resp.body)
                         /\ rd.data = SubSeq(resp.body, 1, Len(rd.data)))
        /\ rd.pos > Len(rd.data) => (rd.pc = "Draining" \/ rd.pc = "Failed")
        /\ Len(rd.out) <= opts.maxBodySize

\* With M = 1 and a body of MaxBody bytes, Read held two bytes when it found
\* the overflow and has read the rest of the body in the drain.
C27_Witness ==
    /\ opts.maxBodySize = 1
    /\ rd.pc = "Draining" /\ rd.why = "overflow"
    /\ Len(resp.body) = MaxBody
    /\ Len(rd.data) = 2
    /\ rd.pos = MaxBody

\* ------------------------------------------------------------------ claims: ExpandEnv.Read
\* C21: when the wrapped provider returns a payload without a '$' byte, the
\* empty and the nil payload included, ExpandEnv.Read returns the same bytes
\* and no error, whatever the environment holds; when the wrapped provider
\* returns an error, Read returns that error itself and nil data.
C21_NoDollarIdentity ==
    ex.pc = "done" =>
        /\ (ex.got.err = NoErr /\ ~HasDollar(ex.got.data)) =>
              (ex.ret.err = NoErr /\ ex.ret.data = ex.got.data)
        /\ ex.got.err # NoErr =>
              (ex.ret.err = ex.got.err /\ ex.ret.isNil /\ ex.ret.data = <<>>)

\* Read returned a payload of braces, a letter and another byte as it was,
\* with the variable a set in the environment.
C21_Witness ==
    /\ ex.pc = "done" /\ ex.env = "set"
    /\ ex.got = Out(FALSE, <<"{", "a", "}">>, NoErr)
    /\ ex.ret.data = <<"{", "a", "}">>

\* ------------------------------------------------------------------ claims: StringCodec
\* C23: StringCodec's Unmarshal returns nil and leaves the payload's bytes in
\* the pointed-to string when val is a non-nil *string; for a nil *string it
\* returns ErrNilPointer, for a val of any other type, the nil interface
\* included, ErrInvalidType, and in both cases val is as it was.
C23_StringUnmarshal ==
    sc.pc = "done" =>
        IF sc.val0.type = "*string" /\ ~sc.val0.isNil
        THEN sc.err = NoErr /\ sc.val.content = sc.data /\ ~sc.val.isNil
        ELSE /\ sc.val = sc.val0
             /\ IF sc.val0.type = "*string"
                THEN Is(sc.err, ErrNilPointer) /\ ~Is(sc.err, ErrInvalidType)
                ELSE Is(sc.err, ErrInvalidType) /\ ~Is(sc.err, ErrNilPointer)

\* Unmarshal of a payload of three bytes returned ErrNilPointer for a nil
\* *string.
C23_Witness ==
    /\ sc.pc = "done"
    /\ sc.val0 = MkVal("*string", TRUE, <<>>)
    /\ Len(sc.data) = 3
    /\ sc.err = ErrNilPointer

====
